---- MODULE Spec2Model ----
(***************************************************************************)
(* Model of src/audio.py: analyze_audio_file(audio_path, api_key).         *)
(*                                                                         *)
(* A text is a sequence of tokens.  Each of the four literal markers is    *)
(* one token (no marker contains whitespace, and no occurrence of a marker *)
(* can overlap an occurrence of another, so every text splits uniquely     *)
(* into marker occurrences and single characters).  "\n" stands for a      *)
(* whitespace character, "x" and "y" for characters that are not           *)
(* whitespace.                                                             *)
(***************************************************************************)
EXTENDS Integers, Sequences, FiniteSets, TLC

VARIABLES pc, api_key, clients, calls, upstream_error, error,
          response_text, result

vars == <<pc, api_key, clients, calls, upstream_error, error,
          response_text, result>>

(* ---------------------------- bounds ----------------------------------- *)

MaxLen == 5

(* ---------------------------- tokens ----------------------------------- *)

RAW_START == "<<<RAW_TRANSCRIPT_START>>>"

RAW_END == "<<<RAW_TRANSCRIPT_END>>>"

NOTES_START == "<<<ACCESSIBLE_NOTES_START>>>"

NOTES_END == "<<<ACCESSIBLE_NOTES_END>>>"

Markers == {RAW_START, RAW_END, NOTES_START, NOTES_END}

Whitespace == {"\n"}

Alphabet == Markers \cup Whitespace \cup {"x", "y"}

\* Python's None where a text is expected: a value that is no text.
None == <<"<None>">>

\* "Accessible notes could not be parsed from the model response.\n\n"
NOTICE == <<"Accessible notes could not be parsed from the model response.", "\n", "\n">>

\* The template the prompt asks for, filled with one-character sections.
Template == <<RAW_START, "\n", "x", "\n", RAW_END, "\n", "\n",
              NOTES_START, "\n", "y", "\n", NOTES_END>>

Scenarios == { Template,
               <<"\n">> \o Template \o <<"\n">>,
               <<RAW_START, "\n", "x", "\n", "y", "\n", RAW_END, "\n",
                 NOTES_START, "\n", "\n", NOTES_END>>,
               <<"x", RAW_START, "x", RAW_END, NOTES_START, "y", NOTES_END, "y">> }

\* What response.text can be.
Responses == UNION { [1..n -> Alphabet] : n \in 0..MaxLen } \cup Scenarios \cup {None}

ApiKeys == {"<None>", "", "key"}

UpstreamErrors == {"ConnectionError", "ServerError"}

(* ------------------------- str.strip() --------------------------------- *)

IsSpace(c) == c \in Whitespace

RECURSIVE LStrip(_)
LStrip(s) == IF s # <<>> /\ IsSpace(Head(s)) THEN LStrip(Tail(s)) ELSE s

RECURSIVE RStrip(_)
RStrip(s) == IF s # <<>> /\ IsSpace(s[Len(s)]) THEN RStrip(SubSeq(s, 1, Len(s) - 1)) ELSE s

\* Mutant: every whitespace character is removed, not only the outer ones.
Strip_All(s) == SelectSeq(s, LAMBDA c : ~IsSpace(c))

Strip(s) == RStrip(LStrip(s))

(* ------------- re.search(START \s* (.*?) \s* END, text, DOTALL) --------- *)

Min(S) == CHOOSE m \in S : \A o \in S : m <= o

Max(S) == CHOOSE m \in S : \A o \in S : m >= o

\* Mutant: the pattern compiled without re.DOTALL.
Dot_NoDotAll(c) == c # "\n"

\* "." under re.DOTALL matches every character, the newline included.
Dot(c) == TRUE

\* A greedy quantifier tries the longest repetition first.
GreedyCount(S) == Max(S)

\* Mutant: (.*) in place of (.*?).
LazyCount_Greedy(S) == Max(S)

\* A lazy quantifier tries the shortest repetition first.
LazyCount(S) == Min(S)

\* Number of whitespace characters of s from position p on.
RECURSIVE WsRun(_, _)
WsRun(s, p) == IF p > Len(s) \/ ~IsSpace(s[p]) THEN 0 ELSE 1 + WsRun(s, p + 1)

\* \s*END matches at position p.
TailMatches(s, p, END) ==
    \E j \in 0..WsRun(s, p) : p + j <= Len(s) /\ s[p + j] = END

\* The pairs <<k, n>>: START at i, k whitespace characters, n characters of
\* group 1, and then \s*END.
Candidates(s, i, END) ==
    { kn \in (0..WsRun(s, i + 1)) \X (0..Len(s)) :
        /\ i + kn[1] + kn[2] <= Len(s)
        /\ \A q \in (i + kn[1] + 1)..(i + kn[1] + kn[2]) : Dot(s[q])
        /\ TailMatches(s, i + kn[1] + kn[2] + 1, END) }

NoMatch == [found |-> FALSE, group |-> <<>>]

\* The match the backtracking finds first at start position i.
MatchAt(s, i, START, END) ==
    IF s[i] # START \/ Candidates(s, i, END) = {}
    THEN NoMatch
    ELSE LET C == Candidates(s, i, END)
             k == GreedyCount({ kn[1] : kn \in C })
             n == LazyCount({ kn[2] : kn \in { c \in C : c[1] = k } })
         IN  [found |-> TRUE, group |-> SubSeq(s, i + k + 1, i + k + n)]

\* Mutant: the match at the rightmost position that has one.
Search_Rightmost(s, START, END) ==
    LET I == { i \in 1..Len(s) : MatchAt(s, i, START, END).found }
    IN  IF I = {} THEN NoMatch ELSE MatchAt(s, Max(I), START, END)

\* re.search: the match at the leftmost position that has one.
Search(s, START, END) ==
    LET I == { i \in 1..Len(s) : MatchAt(s, i, START, END).found }
    IN  IF I = {} THEN NoMatch ELSE MatchAt(s, Min(I), START, END)

(* ------------------------ the extraction -------------------------------- *)

\* Mutant: response.text used as it is.
OrEmpty_Missing(t) == t

\* (response.text or "")
OrEmpty(t) == IF t = None \/ t = <<>> THEN <<>> ELSE t

\* Mutant: the response text is not stripped.
FullText_NoStrip(t) == OrEmpty(t)

FullText(t) == Strip(OrEmpty(t))

\* Mutant: raw_transcript keeps its initial "" when there is no match.
RawTranscript_NoFallback(raw_match, full_text) ==
    IF raw_match.found THEN Strip(raw_match.group) ELSE <<>>

RawTranscript(raw_match, full_text) ==
    IF raw_match.found THEN Strip(raw_match.group) ELSE full_text

\* Mutant: the fallback is the notice alone.
AccessibleNotes_NoticeOnly(notes_match, full_text) ==
    IF notes_match.found THEN Strip(notes_match.group) ELSE NOTICE

AccessibleNotes(notes_match, full_text) ==
    IF notes_match.found THEN Strip(notes_match.group) ELSE NOTICE \o full_text

Extract(t) ==
    LET full_text   == FullText(t)
        raw_match   == Search(full_text, RAW_START, RAW_END)
        notes_match == Search(full_text, NOTES_START, NOTES_END)
    IN  [raw_transcript        |-> RawTranscript(raw_match, full_text),
         accessible_transcript |-> AccessibleNotes(notes_match, full_text)]

(* ------------------------ analyze_audio_file ---------------------------- *)

\* No record has been returned.
NoResult == [raw_transcript |-> None, accessible_transcript |-> None]

\* Mutant: "if api_key is None".
KeyMissing_NoneOnly(k) == k = "<None>"

\* "if not api_key"
KeyMissing(k) == k = "<None>" \/ k = ""

\* An exception of an upstream call is not caught: it leaves the function.
Propagate(e) == e

\* Mutant: the failed call is made again.
AfterFailure_Retry(stage) == stage

\* Where control is after an upstream call has raised.
AfterFailure(stage) == "raised"

Init ==
    /\ pc = "start"
    /\ api_key \in ApiKeys
    /\ clients = 0
    /\ calls = <<>>
    /\ upstream_error = "none"
    /\ error = "none"
    /\ response_text = None
    /\ result = NoResult

RaiseNoKey ==
    /\ pc = "start"
    /\ KeyMissing(api_key)
    /\ pc' = "raised"
    /\ error' = "RuntimeError"
    /\ UNCHANGED <<api_key, clients, calls, upstream_error, response_text, result>>

CreateClient ==
    /\ pc = "start"
    /\ ~KeyMissing(api_key)
    /\ clients' = clients + 1
    /\ pc' = "client"
    /\ UNCHANGED <<api_key, calls, upstream_error, error, response_text, result>>

Upload ==
    /\ pc = "client"
    /\ calls' = Append(calls, "upload")
    /\ pc' = "uploaded"
    /\ UNCHANGED <<api_key, clients, upstream_error, error, response_text, result>>

UploadFails ==
    /\ pc = "client"
    /\ calls' = Append(calls, "upload")
    /\ \E e \in UpstreamErrors :
          /\ upstream_error' = e
          /\ error' = Propagate(e)
    /\ pc' = AfterFailure("client")
    /\ UNCHANGED <<api_key, clients, response_text, result>>

GenerateContent ==
    /\ pc = "uploaded"
    /\ calls' = Append(calls, "generate_content")
    /\ response_text' \in Responses
    /\ pc' = "generated"
    /\ UNCHANGED <<api_key, clients, upstream_error, error, result>>

GenerateContentFails ==
    /\ pc = "uploaded"
    /\ calls' = Append(calls, "generate_content")
    /\ \E e \in UpstreamErrors :
          /\ upstream_error' = e
          /\ error' = Propagate(e)
    /\ pc' = AfterFailure("uploaded")
    /\ UNCHANGED <<api_key, clients, response_text, result>>

ExtractAndReturn ==
    /\ pc = "generated"
    /\ result' = Extract(response_text)
    /\ pc' = "returned"
    /\ UNCHANGED <<api_key, clients, calls, upstream_error, error, response_text>>

Next ==
    \/ RaiseNoKey
    \/ CreateClient
    \/ Upload
    \/ UploadFails
    \/ GenerateContent
    \/ GenerateContentFails
    \/ ExtractAndReturn

Spec == Init /\ [][Next]_vars

(* ------------------- vocabulary of the properties ----------------------- *)

Returned == pc = "returned"

\* The response text as a string (a missing text counts as the empty one).
Body == IF response_text = None THEN <<>> ELSE response_text

Toks(s) == { s[i] : i \in 1..Len(s) }

NoOuterSpace(t) == t = <<>> \/ (t[1] \notin Whitespace /\ t[Len(t)] \notin Whitespace)

\* t is s without its leading and trailing whitespace.
IsTrimOf(t, s) ==
    \E i \in 1..(Len(s) + 1), j \in 0..Len(s) :
        /\ t = SubSeq(s, i, j)
        /\ \A q \in 1..(i - 1) : s[q] \in Whitespace
        /\ \A q \in (j + 1)..Len(s) : s[q] \in Whitespace
        /\ NoOuterSpace(t)

Trim(s) ==
    CHOOSE t \in { SubSeq(s, i, j) : i \in 1..(Len(s) + 1), j \in 0..Len(s) } : IsTrimOf(t, s)

IsSubstring(t, s) ==
    \E i \in 1..(Len(s) + 1), j \in 0..Len(s) : t = SubSeq(s, i, j)

\* s has a START with an END somewhere after it.
HasPair(s, START, END) ==
    \E i, j \in 1..Len(s) : i < j /\ s[i] = START /\ s[j] = END

\* The text between the first START and the first END after it.
Between(s, START, END) ==
    LET a == CHOOSE i \in 1..Len(s) :
                 /\ s[i] = START
                 /\ \A q \in 1..(i - 1) : s[q] # START
        b == CHOOSE j \in (a + 1)..Len(s) :
                 /\ s[j] = END
                 /\ \A q \in (a + 1)..(j - 1) : s[q] # END
    IN  SubSeq(s, a + 1, b - 1)

\* Both pairs are there, the RAW pair before the NOTES pair.
BothPairsInOrder(s) ==
    \E a, b, c, d \in 1..Len(s) :
        /\ a < b /\ b < c /\ c < d
        /\ s[a] = RAW_START /\ s[b] = RAW_END
        /\ s[c] = NOTES_START /\ s[d] = NOTES_END

\* START occurs twice before the first END.
DuplicateStart(s, START, END) ==
    \E i, j, e \in 1..Len(s) :
        /\ i < j /\ j < e
        /\ s[i] = START /\ s[j] = START /\ s[e] = END
        /\ \A q \in 1..(e - 1) : s[q] # END

\* What running the extraction again on the string o gives.
FallbackOf(o) == [raw_transcript |-> Trim(o), accessible_transcript |-> NOTICE \o Trim(o)]

(* ----------------------------- C1 --------------------------------------- *)

\* C1: when the response has a RAW pair followed by a NOTES pair, the returned
\* raw_transcript is exactly the trimmed text between the first RAW start
\* marker and the first RAW end marker after it, and accessible_transcript
\* exactly the trimmed text between the NOTES markers.
C1_BothPairsExtracted ==
    (Returned /\ BothPairsInOrder(Body)) =>
        /\ IsTrimOf(result.raw_transcript, Between(Body, RAW_START, RAW_END))
        /\ IsTrimOf(result.accessible_transcript, Between(Body, NOTES_START, NOTES_END))

C1_Witness ==
    /\ Returned
    /\ response_text = Template
    /\ result = [raw_transcript |-> <<"x">>, accessible_transcript |-> <<"y">>]

(* ----------------------------- C2 --------------------------------------- *)

\* C2 as stated: the content extracted from a pair never contains an
\* occurrence of that pair's start marker.
C2_NeverCrossesDuplicateStart ==
    Returned =>
        /\ HasPair(Body, RAW_START, RAW_END) => RAW_START \notin Toks(result.raw_transcript)
        /\ HasPair(Body, NOTES_START, NOTES_END) =>
               NOTES_START \notin Toks(result.accessible_transcript)

\* C2 amended: the match starts at the first start marker and ends at the first
\* end marker after it, so the extracted content never contains its end marker;
\* a second start marker before that end marker is part of the content.
C2_FirstStartToFirstEnd ==
    Returned =>
        /\ HasPair(Body, RAW_START, RAW_END) =>
              /\ IsTrimOf(result.raw_transcript, Between(Body, RAW_START, RAW_END))
              /\ RAW_END \notin Toks(result.raw_transcript)
              /\ DuplicateStart(Body, RAW_START, RAW_END) =>
                     RAW_START \in Toks(result.raw_transcript)
        /\ HasPair(Body, NOTES_START, NOTES_END) =>
              /\ IsTrimOf(result.accessible_transcript, Between(Body, NOTES_START, NOTES_END))
              /\ NOTES_END \notin Toks(result.accessible_transcript)
              /\ DuplicateStart(Body, NOTES_START, NOTES_END) =>
                     NOTES_START \in Toks(result.accessible_transcript)

C2_Witness ==
    /\ Returned
    /\ response_text = <<RAW_START, "x", RAW_START, "y", RAW_END>>
    /\ result.raw_transcript = <<"x", RAW_START, "y">>

(* ----------------------------- C3 --------------------------------------- *)

\* C3: when the response has no RAW start marker followed by a RAW end marker,
\* raw_transcript is the whole trimmed response text, whether or not the NOTES
\* pair was extracted.
C3_RawFallback ==
    (Returned /\ ~HasPair(Body, RAW_START, RAW_END)) =>
        /\ IsTrimOf(result.raw_transcript, Body)
        /\ HasPair(Body, NOTES_START, NOTES_END) =>
               IsTrimOf(result.accessible_transcript, Between(Body, NOTES_START, NOTES_END))
        /\ ~HasPair(Body, NOTES_START, NOTES_END) =>
               result.accessible_transcript = NOTICE \o result.raw_transcript

\* Reversed RAW markers, NOTES pair extracted.
C3_Witness ==
    /\ Returned
    /\ response_text = <<RAW_END, RAW_START, NOTES_START, "y", NOTES_END>>
    /\ result = [raw_transcript |-> response_text, accessible_transcript |-> <<"y">>]

(* ----------------------------- C4 --------------------------------------- *)

\* C4: when the response has no NOTES start marker followed by a NOTES end
\* marker, accessible_transcript is the notice followed by the whole trimmed
\* response text, and a RAW pair that is there is still extracted.
C4_NotesFallback ==
    (Returned /\ ~HasPair(Body, NOTES_START, NOTES_END)) =>
        /\ result.accessible_transcript = NOTICE \o Trim(Body)
        /\ HasPair(Body, RAW_START, RAW_END) =>
               IsTrimOf(result.raw_transcript, Between(Body, RAW_START, RAW_END))

\* RAW pair extracted, NOTES start marker never terminated.
C4_Witness ==
    /\ Returned
    /\ response_text = <<RAW_START, "x", RAW_END, NOTES_START, "y">>
    /\ result = [raw_transcript |-> <<"x">>,
                 accessible_transcript |-> NOTICE \o response_text]

(* ----------------------------- C5 --------------------------------------- *)

\* C5: once a response has arrived nothing is raised, and the returned record
\* has both fields as strings; an empty or missing response text gives
\* raw_transcript "" and accessible_transcript the bare notice.
C5_AlwaysWellFormed ==
    /\ (pc = "raised") => (calls = <<>> \/ upstream_error # "none")
    /\ Returned =>
          /\ result.raw_transcript # None
          /\ result.accessible_transcript # None
          /\ Toks(result.raw_transcript) \subseteq Alphabet
          /\ Toks(result.accessible_transcript) \subseteq Alphabet \cup Toks(NOTICE)
          /\ (response_text = None \/ response_text = <<>>) =>
                 result = [raw_transcript |-> <<>>, accessible_transcript |-> NOTICE]

C5_Witness ==
    /\ Returned
    /\ response_text = None
    /\ result = [raw_transcript |-> <<>>, accessible_transcript |-> NOTICE]

(* ----------------------------- C6 --------------------------------------- *)

\* C6 as stated: the returned strings contain no markers, and extracting again
\* from either of them falls back for both fields.
C6_OutputsFallBack ==
    Returned =>
        \A o \in {result.raw_transcript, result.accessible_transcript} :
            /\ Toks(o) \cap Markers = {}
            /\ Extract(o) = FallbackOf(o)

\* C6 amended: a returned string that contains no markers falls back for both
\* fields when extracted again; and a field that was extracted from its pair
\* does not contain that pair's end marker, so that field is not extracted a
\* second time from it.
C6_NoSecondExtraction ==
    Returned =>
        /\ \A o \in {result.raw_transcript, result.accessible_transcript} :
               (Toks(o) \cap Markers = {}) => Extract(o) = FallbackOf(o)
        /\ HasPair(Body, RAW_START, RAW_END) =>
               Extract(result.raw_transcript).raw_transcript = result.raw_transcript
        /\ HasPair(Body, NOTES_START, NOTES_END) =>
               Extract(result.accessible_transcript).accessible_transcript
                   = NOTICE \o result.accessible_transcript

\* An extracted raw_transcript that still holds a whole NOTES pair.
C6_Witness ==
    /\ Returned
    /\ response_text = <<RAW_START, NOTES_START, "y", NOTES_END, RAW_END>>
    /\ result.raw_transcript = <<NOTES_START, "y", NOTES_END>>
    /\ Extract(result.raw_transcript).raw_transcript = result.raw_transcript
    /\ Extract(result.accessible_transcript) = FallbackOf(<<"y">>)

(* ----------------------------- C7 --------------------------------------- *)

\* C7: with an empty or None api_key the call ends in the RuntimeError with no
\* client created, no upload, no generate_content call and no record.
C7_NoKeyNoNetwork ==
    (api_key \in {"<None>", ""} /\ pc # "start") =>
        /\ pc = "raised"
        /\ error = "RuntimeError"
        /\ clients = 0
        /\ calls = <<>>
        /\ result = NoResult

C7_Witness ==
    /\ api_key = ""
    /\ pc = "raised"
    /\ error = "RuntimeError"
    /\ calls = <<>>

(* ----------------------------- C8 --------------------------------------- *)

\* C8: the upstream calls of a run are at most one upload followed by at most
\* one generate_content; when one of them raises, the run ends with that very
\* exception, nothing is called again and no record is returned.
C8_SingleCallsNoRetry ==
    /\ calls \in {<<>>, <<"upload">>, <<"upload", "generate_content">>}
    /\ clients <= 1
    /\ upstream_error # "none" =>
          /\ pc = "raised"
          /\ error = upstream_error
          /\ result = NoResult
    /\ Returned => (error = "none" /\ calls = <<"upload", "generate_content">>)

C8_Witness ==
    /\ pc = "raised"
    /\ upstream_error = "ServerError"
    /\ error = "ServerError"
    /\ calls = <<"upload", "generate_content">>

(* ----------------------------- C9 --------------------------------------- *)

\* C9: an extracted field has no leading or trailing whitespace, the text used
\* in a fallback is the trimmed response text, and a pair with nothing but
\* whitespace inside gives the empty string.
C9_Trimmed ==
    Returned =>
        /\ NoOuterSpace(result.raw_transcript)
        /\ HasPair(Body, NOTES_START, NOTES_END) => NoOuterSpace(result.accessible_transcript)
        /\ ~HasPair(Body, NOTES_START, NOTES_END) =>
              \E t \in { SubSeq(Body, i, j) : i \in 1..(Len(Body) + 1), j \in 0..Len(Body) } :
                  /\ IsTrimOf(t, Body)
                  /\ result.accessible_transcript = NOTICE \o t
        /\ (HasPair(Body, RAW_START, RAW_END)
               /\ Toks(Between(Body, RAW_START, RAW_END)) \subseteq Whitespace) =>
              result.raw_transcript = <<>>
        /\ (HasPair(Body, NOTES_START, NOTES_END)
               /\ Toks(Between(Body, NOTES_START, NOTES_END)) \subseteq Whitespace) =>
              result.accessible_transcript = <<>>

\* Whitespace around the response and nothing but whitespace in the pair.
C9_Witness ==
    /\ Returned
    /\ response_text = <<"\n", RAW_START, "\n", "\n", RAW_END>>
    /\ result.raw_transcript = <<>>
    /\ result.accessible_transcript = NOTICE \o <<RAW_START, "\n", "\n", RAW_END>>

(* ----------------------------- C10 -------------------------------------- *)

\* C10: raw_transcript is a contiguous part of the trimmed response text, and
\* accessible_transcript is such a part when the NOTES pair matched and the
\* notice followed by the whole trimmed response text when it did not.
C10_NothingInvented ==
    Returned =>
        /\ IsSubstring(result.raw_transcript, Trim(Body))
        /\ IF HasPair(Body, NOTES_START, NOTES_END)
           THEN IsSubstring(result.accessible_transcript, Trim(Body))
           ELSE result.accessible_transcript = NOTICE \o Trim(Body)

\* Content with whitespace inside, in an extracted and in a fallback field.
C10_Witness ==
    /\ Returned
    /\ response_text = <<RAW_START, "x", "\n", "y", RAW_END>>
    /\ result.raw_transcript = <<"x", "\n", "y">>
    /\ result.accessible_transcript = NOTICE \o response_text

====
